---- MODULE Spec2Model ----
(***************************************************************************)
(* The equity research copilot's web application: the compare page         *)
(* (apps/web/src/pages/Compare.tsx), where two filings are resolved to     *)
(* their period-end dates, the metric series are read at those dates, one  *)
(* row per tracked metric is derived (values, delta, percentage delta) and *)
(* the rows are turned into the sentences of the summary; the ticker page  *)
(* (apps/web/src/pages/Ticker.tsx) with its 10-K list, compare tray and    *)
(* focus metrics; and the routes between them (App).                       *)
(*                                                                         *)
(* Numbers are the IEEE 754 doubles of JavaScript, computed with exact     *)
(* integer arithmetic and rounded as the runtime rounds them; an optional  *)
(* number carries the flag def.  Strings are TLA+ strings.                 *)
(***************************************************************************)
EXTENDS Integers, Sequences, FiniteSets, TLC

(***************************************************************************)
(* Bounds of the checked inputs.                                           *)
(***************************************************************************)
\* the steps a deviating series takes are -MaxVal .. MaxVal
MaxVal == 2

(***************************************************************************)
(* Naturals of any size, for the exact arithmetic behind the roundings:    *)
(* a natural is the sequence of its limbs, base 2^14, lowest limb first,   *)
(* without a zero at the top (<< >> is 0).                                 *)
(***************************************************************************)
LimbBits == 14
Base == 16384

Max(a, b) == IF a < b THEN b ELSE a
Min(a, b) == IF a < b THEN a ELSE b

RECURSIVE Pow2(_)
Pow2(k) == IF k = 0 THEN 1 ELSE 2 * Pow2(k - 1)

RECURSIVE Pow10(_)
Pow10(f) == IF f = 0 THEN 1 ELSE 10 * Pow10(f - 1)

\* the number of bits of the integer n >= 0
RECURSIVE BitLen(_)
BitLen(n) == IF n = 0 THEN 0 ELSE 1 + BitLen(n \div 2)

\* the natural n
RECURSIVE BigOf(_)
BigOf(n) == IF n = 0 THEN << >> ELSE << n % Base >> \o BigOf(n \div Base)

One == << 1 >>

\* limb i of a (0 above the top)
Limb(a, i) == IF i <= Len(a) THEN a[i] ELSE 0

\* a without zero limbs at the top
RECURSIVE BigTrim(_)
BigTrim(a) ==
  IF a # << >> /\ a[Len(a)] = 0 THEN BigTrim(SubSeq(a, 1, Len(a) - 1)) ELSE a

\* the limbs i, i-1, .. 1 of a against those of b: -1, 0 or 1
RECURSIVE BigCmpFrom(_, _, _)
BigCmpFrom(a, b, i) ==
  IF i = 0 THEN 0
  ELSE IF Limb(a, i) < Limb(b, i) THEN -1
  ELSE IF Limb(a, i) > Limb(b, i) THEN 1
  ELSE BigCmpFrom(a, b, i - 1)

\* a against b: -1, 0 or 1
BigCmp(a, b) == BigCmpFrom(a, b, Max(Len(a), Len(b)))

RECURSIVE BigAddFrom(_, _, _, _)
BigAddFrom(a, b, i, c) ==
  IF i > Len(a) /\ i > Len(b) THEN (IF c = 0 THEN << >> ELSE << c >>)
  ELSE LET t == Limb(a, i) + Limb(b, i) + c
       IN  << t % Base >> \o BigAddFrom(a, b, i + 1, t \div Base)

\* a + b
BigAdd(a, b) == BigAddFrom(a, b, 1, 0)

RECURSIVE BigSubFrom(_, _, _, _)
BigSubFrom(a, b, i, c) ==
  IF i > Len(a) THEN << >>
  ELSE LET t == Limb(a, i) - Limb(b, i) - c
       IN  << (t + Base) % Base >> \o BigSubFrom(a, b, i + 1, IF t < 0 THEN 1 ELSE 0)

\* a - b, for a >= b
BigSub(a, b) == BigTrim(BigSubFrom(a, b, 1, 0))

RECURSIVE BigMulSmallFrom(_, _, _, _)
BigMulSmallFrom(a, m, i, c) ==
  IF i > Len(a) THEN BigOf(c)
  ELSE LET t == a[i] * m + c
       IN  << t % Base >> \o BigMulSmallFrom(a, m, i + 1, t \div Base)

\* a * m, for an integer 0 <= m <= 2^16
BigMulSmall(a, m) == IF m = 0 THEN << >> ELSE BigMulSmallFrom(a, m, 1, 0)

\* a * Base
BigUp(a) == IF a = << >> THEN << >> ELSE << 0 >> \o a

\* a * b
RECURSIVE BigMul(_, _)
BigMul(a, b) ==
  IF b = << >> THEN << >>
  ELSE BigAdd(BigMulSmall(a, b[1]), BigUp(BigMul(a, Tail(b))))

\* 10^k
RECURSIVE BigPow10(_)
BigPow10(k) == IF k = 0 THEN One ELSE BigMulSmall(BigPow10(k - 1), 10)

\* the sequence s backwards
Reverse(s) == [i \in 1..Len(s) |-> s[Len(s) + 1 - i]]

\* the long division of the limbs i, i-1, .. 1 of a by the integer d, with the
\* remainder r so far; the quotient limbs q come highest first
RECURSIVE BigDivSmallFrom(_, _, _, _)
BigDivSmallFrom(a, d, i, r) ==
  IF i = 0 THEN [q |-> << >>, r |-> r]
  ELSE LET t    == r * Base + a[i]
           rest == BigDivSmallFrom(a, d, i - 1, t % d)
       IN  [q |-> << t \div d >> \o rest.q, r |-> rest.r]

\* quotient q (a natural) and remainder r (an integer) of a by the integer
\* 0 < d <= 2^16
BigDivSmall(a, d) ==
  LET x == BigDivSmallFrom(a, d, Len(a), 0)
  IN  [q |-> BigTrim(Reverse(x.q)), r |-> x.r]

\* a * 2^s
BigShl(a, s) ==
  IF a = << >> THEN << >>
  ELSE [i \in 1..(s \div LimbBits) |-> 0] \o BigMulSmall(a, Pow2(s % LimbBits))

\* a \div 2^s
BigShr(a, s) ==
  IF s \div LimbBits >= Len(a) THEN << >>
  ELSE BigDivSmall(SubSeq(a, s \div LimbBits + 1, Len(a)), Pow2(s % LimbBits)).q

\* bit i of a (bit 0 is the lowest)
BigBit(a, i) == (Limb(a, i \div LimbBits + 1) \div Pow2(i % LimbBits)) % 2

\* the s lowest bits of a are 0
BigLowZero(a, s) ==
  /\ \A j \in 1..(s \div LimbBits) : Limb(a, j) = 0
  /\ Limb(a, s \div LimbBits + 1) % Pow2(s % LimbBits) = 0

\* the number of bits of a
BigBitLen(a) ==
  IF a = << >> THEN 0 ELSE LimbBits * (Len(a) - 1) + BitLen(a[Len(a)])

\* the largest q <= qhat with q * d <= u, and p = q * d
RECURSIVE BigFit(_, _, _, _)
BigFit(u, d, qhat, p) ==
  IF BigCmp(p, u) > 0 THEN BigFit(u, d, qhat - 1, BigSub(p, d))
  ELSE [q |-> qhat, p |-> p]

\* the quotient limb of u by d (of n >= 2 limbs, the top one at least
\* Base / 2), as estimated from the two top limbs of u: never too small
BigEstimate(u, d) ==
  Min(Base - 1, (Limb(u, Len(d) + 1) * Base + Limb(u, Len(d))) \div d[Len(d)])

\* quotient limb and remainder, for the fitting quotient limb and its product
BigTake(u, fit) == [q |-> fit.q, r |-> BigSub(u, fit.p)]

\* one step of the long division by d: the quotient limb and the remainder of
\* u < d * Base
BigDivStep(u, d) ==
  BigTake(u, BigFit(u, d, BigEstimate(u, d), BigMulSmall(d, BigEstimate(u, d))))

\* the long division of the limbs i, i-1, .. 1 of a by d, with the remainder
\* r so far; the quotient limbs q come highest first
RECURSIVE BigDivFrom(_, _, _, _)
RECURSIVE BigDivOn(_, _, _, _)
BigDivFrom(a, d, i, r) ==
  IF i = 0 THEN [q |-> << >>, r |-> r]
  ELSE BigDivOn(a, d, i, BigDivStep(BigTrim(<< a[i] >> \o r), d))

\* the long division after the step of limb i
BigDivOn(a, d, i, step) ==
  LET rest == BigDivFrom(a, d, i - 1, step.r)
  IN  [q |-> << step.q >> \o rest.q, r |-> rest.r]

\* the shift that brings the top limb of d to Base / 2 or above
BigNorm(d) == LimbBits - BitLen(d[Len(d)])

\* the result of the division scaled by 2^sh: its quotient, lowest limb first,
\* and its remainder scaled back
BigUnscaled(x, sh) == [q |-> BigTrim(Reverse(x.q)), r |-> BigShr(x.r, sh)]

\* quotient q and remainder r (naturals) of a by d # 0, both scaled by 2^sh
BigDivScaled(a, d, sh) == BigUnscaled(BigDivFrom(a, d, Len(a), << >>), sh)

\* the remainder of a division by one limb as a natural
BigRemainder(x) == [q |-> x.q, r |-> BigOf(x.r)]

\* quotient q and remainder r (naturals) of a by d # 0
BigDivMod(a, d) ==
  IF Len(d) = 1 THEN BigRemainder(BigDivSmall(a, d[1]))
  ELSE BigDivScaled(BigShl(a, BigNorm(d)), BigShl(d, BigNorm(d)), BigNorm(d))

\* the decimal digits of the integer n >= 0, left-padded with zeros to width w
RECURSIVE Pad(_, _)
Pad(n, w) == IF w <= 1 THEN ToString(n) ELSE Pad(n \div 10, w - 1) \o ToString(n % 10)

\* the integer a natural of at most two limbs is
BigInt(a) == Limb(a, 1) + Base * Limb(a, 2)

\* the decimal digits of a
RECURSIVE BigDigits(_)
BigDigits(a) ==
  IF Len(a) <= 2 THEN ToString(BigInt(a))
  ELSE LET x == BigDivSmall(a, 10000) IN BigDigits(x.q) \o Pad(x.r, 4)

\* the number of decimal digits of a
RECURSIVE DigitCount(_)
DigitCount(a) == IF a = << >> THEN 0 ELSE 1 + DigitCount(BigDivSmall(a, 10).q)

(***************************************************************************)
(* Numbers: the IEEE 754 doubles of JavaScript.  A number is NaN, +-       *)
(* Infinity, +-0 (man = << >>, exp = 0) or (-1)^neg * man * 2^exp with     *)
(* 2^52 <= man < 2^53; an optional number carries the flag def.  Every     *)
(* operation is the exact result rounded once to the nearest double, ties  *)
(* to the even mantissa; below 2^-1022 the mantissa is shorter (exp =      *)
(* MinExp, man < 2^52).                                                    *)
(***************************************************************************)
\* the value `undefined` of a `number | undefined`
Undefined == [def |-> FALSE, cls |-> "nan", neg |-> FALSE, man |-> << >>, exp |-> 0]

NaN == [def |-> TRUE, cls |-> "nan", neg |-> FALSE, man |-> << >>, exp |-> 0]
Infinity(neg) == [def |-> TRUE, cls |-> "inf", neg |-> neg, man |-> << >>, exp |-> 0]
Zero(neg) == [def |-> TRUE, cls |-> "fin", neg |-> neg, man |-> << >>, exp |-> 0]
Finite(neg, man, exp) == [def |-> TRUE, cls |-> "fin", neg |-> neg, man |-> man, exp |-> exp]

\* the largest exponent of a 53-bit mantissa: above it a result is Infinity
MaxExp == 971
\* the smallest exponent: the last bit of a number is never below 2^-1074
MinExp == -1074

\* the number (-1)^neg * m * 2^exp of a mantissa m < 2^54 that is rounded
\* already: 2^53 is brought back to 53 bits
Normal(neg, m, exp) ==
  IF m = << >> THEN Zero(neg)
  ELSE IF exp + BigBitLen(m) - 53 > MaxExp THEN Infinity(neg)
  ELSE IF BigBitLen(m) = 54 THEN Finite(neg, BigShr(m, 1), exp + 1)
  ELSE Finite(neg, m, exp)

\* q, the bits of ns above the lowest s, rounded by the bits below: upwards
\* above the half, and at the half to the even mantissa
RoundedUp(ns, s, q) ==
  IF /\ BigBit(ns, s - 1) = 1
     /\ (~BigLowZero(ns, s - 1) \/ BigBit(q, 0) = 1)
    THEN BigAdd(q, One)
    ELSE q

\* the double nearest to (-1)^neg * ns * 2^e without the s >= 1 lowest bits
\* of ns
RoundedAt(neg, ns, e, s) == Normal(neg, RoundedUp(ns, s, BigShr(ns, s)), e + s)

\* the double nearest to (-1)^neg * ns * 2^e, for a natural ns of 54 bits or
\* more: the 53 top bits are kept, fewer where the last one would lie below
\* 2^MinExp
Rounded(neg, ns, e) == RoundedAt(neg, ns, e, Max(BigBitLen(ns) - 53, MinExp - e))

\* the double nearest to (-1)^neg * n * 2^e, for a natural n # 0 widened by k
\* bits to 54 bits or more
RoundBy(neg, n, e, k) == Rounded(neg, BigShl(n, k), e - k)

\* the double nearest to (-1)^neg * n * 2^e, for a natural n
Round(neg, n, e) ==
  IF n = << >> THEN Zero(neg) ELSE RoundBy(neg, n, e, Max(1, 54 - BigBitLen(n)))

\* twice the quotient of a division, with a last bit that says whether there
\* is a remainder
Sticky(qr) == BigAdd(BigShl(qr.q, 1), IF qr.r = << >> THEN << >> ELSE One)

\* the double nearest to (-1)^neg * (n / d) * 2^e, for naturals n # 0 and
\* d # 0: the quotient of n * 2^k by d has 55 bits or more
NearestBy(neg, n, d, e, k) == Rounded(neg, Sticky(BigDivMod(BigShl(n, k), d)), e - k - 1)

\* the double nearest to (-1)^neg * (n / d) * 2^e, for naturals n and d # 0
Nearest(neg, n, d, e) ==
  IF n = << >> THEN Zero(neg)
  ELSE NearestBy(neg, n, d, e, Max(0, 55 + BigBitLen(d) - BigBitLen(n)))

\* the integer n as a number
FromInt(n) == Round(n < 0, BigOf(IF n < 0 THEN -n ELSE n), 0)

IsNaN(x) == x.def /\ x.cls = "nan"
IsFinite(x) == x.def /\ x.cls = "fin"

\* x == null
IsNull(x) == ~x.def
\* x === 0 (+0 or -0)
IsZero(x) == x.def /\ x.cls = "fin" /\ x.man = << >>
\* x < 0
IsNegative(x) == x.def /\ x.cls # "nan" /\ x.neg /\ ~IsZero(x)
\* a slip of the sign test: x > 0
GeqZero_Strict(x) == x.def /\ x.cls # "nan" /\ ~x.neg /\ ~IsZero(x)

\* x >= 0 (false for NaN)
GeqZero(x) == x.def /\ x.cls # "nan" /\ (~x.neg \/ IsZero(x))

\* -a
Neg(a) == IF a.cls = "nan" THEN a ELSE [a EXCEPT !.neg = ~a.neg]

\* the sum of (-1)^an * ma and (-1)^bn * mb, times 2^e
AddAligned(an, ma, bn, mb, e) ==
  IF an # bn /\ ma = mb THEN Zero(FALSE)
  ELSE Round(IF an = bn \/ BigCmp(ma, mb) > 0 THEN an ELSE bn,
             IF an = bn THEN BigAdd(ma, mb)
             ELSE IF BigCmp(ma, mb) > 0 THEN BigSub(ma, mb)
             ELSE BigSub(mb, ma),
             e)

\* a + b; an operand below a quarter of the other's last bit leaves the other
\* as it is
Add(a, b) ==
  IF a.cls = "nan" \/ b.cls = "nan" THEN NaN
  ELSE IF a.cls = "inf" THEN (IF b.cls = "inf" /\ a.neg # b.neg THEN NaN ELSE a)
  ELSE IF b.cls = "inf" THEN b
  ELSE IF a.man = << >> /\ b.man = << >> THEN Zero(a.neg /\ b.neg)
  ELSE IF a.man = << >> THEN b
  ELSE IF b.man = << >> \/ a.exp - b.exp >= 55 THEN a
  ELSE IF b.exp - a.exp >= 55 THEN b
  ELSE AddAligned(a.neg, BigShl(a.man, a.exp - Min(a.exp, b.exp)),
                  b.neg, BigShl(b.man, b.exp - Min(a.exp, b.exp)),
                  Min(a.exp, b.exp))

\* a - b
Sub(a, b) == Add(a, Neg(b))

\* a * b
Mul(a, b) ==
  IF a.cls = "nan" \/ b.cls = "nan" THEN NaN
  ELSE IF a.cls = "inf" \/ b.cls = "inf"
    THEN (IF IsZero(a) \/ IsZero(b) THEN NaN ELSE Infinity(a.neg # b.neg))
  ELSE Round(a.neg # b.neg, BigMul(a.man, b.man), a.exp + b.exp)

\* a / b
Div(a, b) ==
  IF a.cls = "nan" \/ b.cls = "nan" THEN NaN
  ELSE IF a.cls = "inf" THEN (IF b.cls = "inf" THEN NaN ELSE Infinity(a.neg # b.neg))
  ELSE IF b.cls = "inf" THEN Zero(a.neg # b.neg)
  ELSE IF b.man = << >> THEN (IF a.man = << >> THEN NaN ELSE Infinity(a.neg # b.neg))
  ELSE Nearest(a.neg # b.neg, a.man, b.man, a.exp - b.exp)

\* Math.abs(a)
MathAbs(a) == IF a.cls = "nan" THEN a ELSE [a EXCEPT !.neg = FALSE]

\* the number a decimal n / d of a payload is parsed to: the double nearest to
\* it; n / 0 stands for Infinity (n > 0), -Infinity (n < 0) or NaN (n = 0)
Num(n, d) == Div(FromInt(n), FromInt(d))

\* the literal 100
Hundred == FromInt(100)

\* a == b on numbers: +0 equals -0, NaN equals nothing
NumEq(a, b) ==
  /\ a.def /\ b.def /\ a.cls # "nan" /\ b.cls # "nan"
  /\ (a = b \/ (IsZero(a) /\ IsZero(b)))

(***************************************************************************)
(* Number formatting.                                                      *)
(***************************************************************************)
\* the integer (a natural) below |x| * 10^f, for a finite x and f <= 4
Floor(x, f) ==
  IF x.exp >= 0 THEN BigShl(BigMulSmall(x.man, Pow10(f)), x.exp)
  ELSE BigShr(BigMulSmall(x.man, Pow10(f)), -x.exp)

\* Number.prototype.toFixed rounds the exact value of the double: the integer
\* n (a natural) for which n / 10^f - |x| is closest to zero, the larger n of
\* two
Scaled(x, f) ==
  IF x.exp >= 0 THEN BigShl(BigMulSmall(x.man, Pow10(f)), x.exp)
  ELSE BigShr(BigAdd(BigShr(BigMulSmall(x.man, Pow10(f)), -x.exp - 1), One), 1)

\* c / p rounded to an integer, a half upwards
HalfUp(c, p) == BigDivMod(BigAdd(BigShl(c, 1), p), BigShl(p, 1)).q

\* c / p rounded to an integer, a half to the even one
HalfEven(qr) ==
  IF qr.r = << >> /\ BigBit(qr.q, 0) = 1 THEN BigSub(qr.q, One) ELSE qr.q

\* |x| * 2^k as the quotient of two naturals, for the k that makes them
\* naturals
Numerator(x, j) == BigShl(BigMul(x.man, BigPow10(Max(-j, 0))), Max(x.exp, 0))
Denominator(x, j) == BigShl(BigPow10(Max(j, 0)), Max(-x.exp, 0))

\* the natural c for which c * 10^j is nearest to |x|, the even c of two
RoundedTo(x, j) ==
  HalfEven(BigDivMod(BigAdd(BigShl(Numerator(x, j), 1), Denominator(x, j)),
                     BigShl(Denominator(x, j), 1)))

\* the decimal c * 10^j reads back as |x|
ReadsBack(x, c, j) ==
  Nearest(FALSE, BigMul(c, BigPow10(Max(j, 0))), BigPow10(Max(-j, 0)), 0) = MathAbs(x)

\* the decimal c * 10^j of the fewest digits (n or more, 17 at most) that
\* reads back as |x|, where |x| >= 1 has p digits before the point
RECURSIVE ShortestFrom(_, _, _)
RECURSIVE ShortestTry(_, _, _, _)
ShortestFrom(x, p, n) == ShortestTry(x, p, n, RoundedTo(x, p - n))

\* c * 10^(p - n) if it reads back as |x|, a longer decimal if not
ShortestTry(x, p, n, c) ==
  IF n >= 17 \/ ReadsBack(x, c, p - n) THEN [c |-> c, j |-> p - n]
  ELSE ShortestFrom(x, p, n + 1)

\* the shortest decimal that reads back as |x|, for a finite |x| >= 1: the
\* digits of Number.prototype.toString
Shortest(x) == ShortestFrom(x, DigitCount(Floor(x, 0)), 1)

\* the decimal s.c * 10^s.j times 10^f, rounded to an integer, a half upwards
Placed(s, f) ==
  IF s.j + f >= 0 THEN BigMul(s.c, BigPow10(s.j + f))
  ELSE HalfUp(s.c, BigPow10(-(s.j + f)))

\* the half-way decimal (2 * lo + 1) / (2 * 10^f) above lo / 10^f reads back
\* as |x|
TieReadsBack(x, f, lo) ==
  Nearest(FALSE, BigAdd(BigMulSmall(lo, 2), One), BigOf(2 * Pow10(f)), 0) = MathAbs(x)

\* toLocaleString rounds the shortest decimal that reads back as the double,
\* a half away from zero; lo is the integer below |x| * 10^f.  Where the
\* half-way decimal above lo has no more than 15 digits (lo is below 2^48)
\* the shortest decimal lies on the side of it the double lies on, unless the
\* half-way decimal itself reads back as |x|: then it is the shortest decimal
\* and is rounded upwards.  Above, the shortest decimal is found digit by
\* digit.
ScaledFrom(x, f, lo) ==
  IF BigBitLen(lo) <= 48
    THEN IF Scaled(x, f) # lo \/ TieReadsBack(x, f, lo) THEN BigAdd(lo, One)
         ELSE lo
    ELSE Placed(Shortest(x), f)

\* the integer n (a natural) toLocaleString prints with f fraction digits,
\* for a finite x and f <= 4
ScaledShortest(x, f) == ScaledFrom(x, f, Floor(x, f))

\* the sign, the integer digits and the f fraction digits of a decimal
Decimal(sign, n, f) ==
  sign \o BigDigits(n.q) \o (IF f > 0 THEN "." \o Pad(n.r, f) ELSE "")

\* Number.prototype.toFixed(f), for |x| < 10^21 and f <= 4
toFixed(x, f) ==
  IF x.cls = "nan" THEN "NaN"
  ELSE IF x.cls = "inf" THEN (IF x.neg THEN "-Infinity" ELSE "Infinity")
  ELSE Decimal(IF IsNegative(x) THEN "-" ELSE "",
               BigDivSmall(Scaled(x, f), Pow10(f)), f)

\* the runtime's default locales that are modelled, with their separators
Locales == {"en-US", "de-DE"}
GroupSep(locale) == IF locale = "de-DE" THEN "." ELSE ","
DecimalSep(locale) == IF locale = "de-DE" THEN "," ELSE "."

\* the natural a with its digits grouped by three
RECURSIVE Grouped(_, _)
Grouped(a, locale) ==
  IF Len(a) <= 1 /\ BigInt(a) < 1000 THEN ToString(BigInt(a))
  ELSE LET x == BigDivSmall(a, 1000)
       IN  Grouped(x.q, locale) \o GroupSep(locale) \o Pad(x.r, 3)

\* the w-digit fraction n without its trailing zeros
RECURSIVE Fraction(_, _)
Fraction(n, w) ==
  IF w = 0 \/ n = 0 THEN ""
  ELSE IF n % 10 = 0 THEN Fraction(n \div 10, w - 1)
  ELSE Pad(n, w)

\* the sign, the grouped integer digits and the fraction digits, if any
Localized(sign, whole, fr, locale) ==
  sign \o Grouped(whole, locale) \o (IF fr = "" THEN "" ELSE DecimalSep(locale) \o fr)

\* the decimal of the integer part n.q and the fraction n.r of f digits
LocalDecimal(sign, n, f, locale) == Localized(sign, n.q, Fraction(n.r, f), locale)

\* n.toLocaleString(undefined, { maximumFractionDigits: digits }), for
\* |x| < 10^21 and digits <= 4; the infinity sign U+221E is written "oo"
toLocaleString(x, digits, locale) ==
  IF x.cls = "nan" THEN "NaN"
  ELSE IF x.cls = "inf" THEN (IF x.neg THEN "-" ELSE "") \o "oo"
  ELSE LocalDecimal(IF x.neg THEN "-" ELSE "",
                    BigDivSmall(ScaledShortest(x, digits), Pow10(digits)),
                    digits, locale)

\* fmt(n, digits); the em dash U+2014 is written "--"
fmt(n, digits, locale) ==
  IF IsNull(n) \/ IsNaN(n) THEN "--" ELSE toLocaleString(n, digits, locale)

(***************************************************************************)
(* Delta math.                                                             *)
(***************************************************************************)
\* pctDelta without its test `from === 0`
pctDelta_NoZeroGuard(from, to) ==
  IF IsNull(from) \/ IsNull(to) THEN Undefined
  ELSE Mul(Div(Sub(to, from), from), Hundred)

\* pctDelta as the difference to - from
pctDelta_PointDifference(from, to) ==
  IF IsNull(from) \/ IsNull(to) \/ IsZero(from) THEN Undefined ELSE Sub(to, from)

\* pctDelta(from, to)
pctDelta(from, to) ==
  IF IsNull(from) \/ IsNull(to) \/ IsZero(from) THEN Undefined
  ELSE Mul(Div(Sub(to, from), from), Hundred)

(***************************************************************************)
(* Data: the filing catalog and the metric series of one ticker.           *)
(***************************************************************************)
\* the value of an optional string that is absent (`undefined`)
Absent == "<undefined>"
\* JavaScript truthiness of an optional string
Truthy(str) == str # Absent /\ str # ""

\* Array.prototype.find over the indices `hits` of the matching elements: the
\* first of them, 0 when there is none
First(hits) ==
  IF hits = {} THEN 0 ELSE CHOOSE i \in hits : \A j \in hits : i <= j

Date0 == "2021-09-25"
Date1 == "2022-09-24"
Date2 == "2023-09-30"

\* the filings the catalog query returns: two with a period end, one without
Catalog ==
  << [accession |-> "0000320193-23-000106", form |-> "10-K", periodEnd |-> Date2],
     [accession |-> "0000320193-22-000108", form |-> "10-K", periodEnd |-> Date1],
     [accession |-> "0000320193-24-000123", form |-> "10-K", periodEnd |-> ""] >>

\* the values of the `left` and `right` URL parameters: none, the catalog's
\* filings, and an accession the catalog does not hold
AccessionParams ==
  {"", "0000000000-00-000000"} \cup {Catalog[i].accession : i \in 1..Len(Catalog)}

\* the rows of the table: TABLE_KEYS (digits is 0 where the entry has none,
\* the default of fmt; asPct is FALSE where the entry has none)
TABLE_KEYS ==
  << [key |-> "revenue",          label |-> "Revenue ($m)",        digits |-> 0, asPct |-> FALSE],
     [key |-> "gm",               label |-> "Gross Margin (%)",    digits |-> 1, asPct |-> TRUE],
     [key |-> "eps_diluted",      label |-> "EPS (diluted, $/sh)", digits |-> 2, asPct |-> FALSE],
     [key |-> "assets",           label |-> "Assets ($m)",         digits |-> 0, asPct |-> FALSE],
     [key |-> "liabilities",      label |-> "Liabilities ($m)",    digits |-> 0, asPct |-> FALSE],
     [key |-> "operating_income", label |-> "Operating Inc. ($m)", digits |-> 0, asPct |-> FALSE],
     [key |-> "net_income",       label |-> "Net Income ($m)",     digits |-> 0, asPct |-> FALSE],
     [key |-> "equity",           label |-> "Equity ($m)",         digits |-> 0, asPct |-> FALSE] >>

MetricKeys == {TABLE_KEYS[i].key : i \in 1..Len(TABLE_KEYS)}

\* the series the margins of the ticker page's focus metrics divide by revenue
NumeratorKeys == {"gross_profit", "operating_income", "net_income"}

\* the series of a store: those of the table and gross_profit
SeriesKeys ==
  << "revenue", "gross_profit", "gm", "eps_diluted", "assets", "liabilities",
     "operating_income", "net_income", "equity" >>

\* the steps of a deviating series are -MaxVal .. MaxVal, and NoPoint for a
\* date without a point
NoPoint == MaxVal + 1

\* a value of the metrics payload: the number n / d, which is read as the
\* nearest double, and no value
Lit(n, d) == << n, d >>
NoLit == << >>

\* the value of step i: an amount 50 * i; for the margin the fractions 0 (the
\* lowest step), .. 0.375, 0.4, 0.425, ..
ValueOf(key, i) ==
  IF i = NoPoint THEN NoLit
  ELSE IF key # "gm" THEN Lit(50 * i, 1)
  ELSE IF i = -MaxVal THEN Lit(0, 1)
  ELSE Lit(16 + i, 40)

\* a series with a point at Date0 and, where there is a value v1 / v2, at
\* Date1 / Date2
Points(v0, v1, v2) ==
  << [date |-> Date0, value |-> v0] >>
    \o (IF v1 # NoLit THEN << [date |-> Date1, value |-> v1] >> ELSE << >>)
    \o (IF v2 # NoLit THEN << [date |-> Date2, value |-> v2] >> ELSE << >>)

\* a complete series of the key: EPS figures that lie just below a half-way
\* decimal (1.005, 2.675) and an equity whose change (28.75 %) is computed
\* just below it
DefaultPoints(key) ==
  IF key = "gm" THEN Points(Lit(418, 1000), Lit(433, 1000), Lit(441, 1000))
  ELSE IF key = "eps_diluted" THEN Points(Lit(561, 100), Lit(1005, 1000), Lit(2675, 1000))
  ELSE IF key = "gross_profit" THEN Points(Lit(152836, 1), Lit(170782, 1), Lit(169148, 1))
  ELSE IF key = "equity" THEN Points(Lit(62, 1), Lit(80, 1), Lit(103, 1))
  ELSE Points(Lit(365817, 1), Lit(394328, 1), Lit(383285, 1))

\* the payload whose series take step i1 at Date1 and step i2 at Date2, the
\* numerators of the margins the other way round (i2 at Date1, i1 at Date2)
StoreDeviating(i1, i2) ==
  [n \in 1..Len(SeriesKeys) |->
     [key    |-> SeriesKeys[n],
      points |-> Points(DefaultPoints(SeriesKeys[n])[1].value,
                        ValueOf(SeriesKeys[n],
                                IF SeriesKeys[n] \in NumeratorKeys THEN i2 ELSE i1),
                        ValueOf(SeriesKeys[n],
                                IF SeriesKeys[n] \in NumeratorKeys THEN i1 ELSE i2))]]

\* the complete payload whose series k alone deviates: step 0 at Date1 and step
\* 1 at Date2 (an amount that goes from 0 to 50)
StoreDeviatingOnly(k) ==
  [n \in 1..Len(SeriesKeys) |->
     [key    |-> SeriesKeys[n],
      points |-> IF SeriesKeys[n] = k
                   THEN Points(DefaultPoints(k)[1].value, ValueOf(k, 0), ValueOf(k, 1))
                   ELSE DefaultPoints(SeriesKeys[n])]]

\* the payload that has complete series of the keys outside `missing` only
StoreWithout(missing) ==
  LET Present(sr) == sr.key \notin missing
  IN  SelectSeq([n \in 1..Len(SeriesKeys) |->
                   [key |-> SeriesKeys[n], points |-> DefaultPoints(SeriesKeys[n])]],
                Present)

\* the complete payload whose series k ends before Date2
StoreEndingEarly(k) ==
  [n \in 1..Len(SeriesKeys) |->
     [key    |-> SeriesKeys[n],
      points |-> SubSeq(DefaultPoints(SeriesKeys[n]), 1,
                        IF SeriesKeys[n] = k THEN 2 ELSE 3)]]

\* the complete payload with other revenue and gross profit: revenue 1000 and
\* gross profit 400 / 425 at Date1 / Date2, and the given "gm" series, if any
StoreWithGrossProfit(gmSeries) ==
  << [key |-> "revenue",      points |-> Points(Lit(900, 1), Lit(1000, 1), Lit(1000, 1))],
     [key |-> "gross_profit", points |-> Points(Lit(350, 1), Lit(400, 1), Lit(425, 1))] >>
    \o gmSeries
    \o StoreWithout({"revenue", "gross_profit", "gm"})

\* the "gm" series a payload with gross profit comes with: none, the one that
\* agrees with gross profit / revenue, one that does not
MarginSeries ==
  { << >>,
    << [key |-> "gm", points |-> Points(Lit(350, 900), Lit(400, 1000), Lit(425, 1000))] >>,
    << [key |-> "gm", points |-> Points(Lit(350, 900), Lit(375, 1000), Lit(400, 1000))] >> }

\* the payloads of the metrics request in the checked runs
Payloads ==
  {StoreDeviating(i1, i2) : i1, i2 \in (-MaxVal..MaxVal) \cup {NoPoint}}
    \cup {StoreWithout(missing) :
            missing \in {{}, {SeriesKeys[n] : n \in 1..Len(SeriesKeys)}}
                          \cup {{k} : k \in MetricKeys}}
    \cup {StoreDeviatingOnly(k) : k \in MetricKeys}
    \cup {StoreEndingEarly(k) : k \in MetricKeys}
    \cup {StoreWithGrossProfit(gmSeries) : gmSeries \in MarginSeries}

\* the series of a payload, its decimals parsed to numbers
Parsed(payload) ==
  [n \in 1..Len(payload) |->
     [key    |-> payload[n].key,
      points |-> [m \in 1..Len(payload[n].points) |->
                    [date  |-> payload[n].points[m].date,
                     value |-> Num(payload[n].points[m].value[1],
                                   payload[n].points[m].value[2])]]]]

\* the series stores the metrics query returns in the checked runs
Stores == {Parsed(payload) : payload \in Payloads}

\* a query: no data before it resolves
NotLoaded == [loaded |-> FALSE, data |-> << >>]
Loaded(d) == [loaded |-> TRUE, data |-> d]

(***************************************************************************)
(* The state of the application.                                           *)
(***************************************************************************)
VARIABLES
  leftAcc,    \* the compare page's URL parameter `left`
  rightAcc,   \* the compare page's URL parameter `right`
  locale,     \* the default locale of the runtime
  filingsQ,   \* the filing catalog query ["filings", symbol] of both pages
  metricsQ,   \* the metric series query ["metrics", symbol] of both pages
  rows,       \* the rows of the compare page's last render
  summary,    \* the sentences of the compare page's last render (bullets())
  header,     \* the header of the compare page's last render (headerLine())
  page,       \* the route that is shown: "ticker", "compare" or "dashboard"
  slotA,      \* the ticker page's URL parameter `a`
  slotB,      \* the ticker page's URL parameter `b`
  selected    \* the ticker page's selected filing: << >> (null) or << filing >>

vars ==
  <<leftAcc, rightAcc, locale, filingsQ, metricsQ, rows, summary, header,
    page, slotA, slotB, selected>>

(***************************************************************************)
(* The compare page.                                                       *)
(***************************************************************************)
\* the symbol of both pages: params.get("symbol") ?? "AAPL" without the
\* parameter, /ticker/AAPL, and the symbol the Compare button passes on
symbol == "AAPL"

\* filingsQ.data?.find(f => f.accession === acc)?.periodEnd
periodEndOf(fq, acc) ==
  LET i == First({n \in 1..Len(fq.data) : fq.data[n].accession = acc})
  IN  IF ~fq.loaded \/ i = 0 THEN Absent ELSE fq.data[i].periodEnd

\* ready without the two period-end dates
Ready_IdsOnly(lAcc, rAcc, lDate, rDate) == Truthy(lAcc) /\ Truthy(rAcc)

\* ready
Ready(lAcc, rAcc, lDate, rDate) ==
  Truthy(lAcc) /\ Truthy(rAcc) /\ Truthy(lDate) /\ Truthy(rDate)

\* valAt(key, d)
valAt(mq, key, d) ==
  IF ~Truthy(d) THEN Undefined
  ELSE LET i == First({n \in 1..Len(mq.data) : mq.data[n].key = key})
           s == IF ~mq.loaded \/ i = 0 THEN << >> ELSE mq.data[i].points
           j == First({n \in 1..Len(s) : s[n].date = d})
       IN  IF j = 0 THEN Undefined ELSE s[j].value

\* a row that forgets the scaling by 100
scaled_Unscaled(k, raw) == raw

\* k.asPct ? (raw != null ? raw * 100 : undefined) : raw
scaled(k, raw) ==
  IF k.asPct THEN (IF ~IsNull(raw) THEN Mul(raw, Hundred) ELSE Undefined) ELSE raw

\* a delta that keeps the magnitude only
absDelta_Magnitude(l, r) ==
  IF ~IsNull(l) /\ ~IsNull(r) THEN MathAbs(Sub(r, l)) ELSE Undefined

\* (l != null && r != null) ? (r - l) : undefined
absDelta(l, r) == IF ~IsNull(l) /\ ~IsNull(r) THEN Sub(r, l) ELSE Undefined

\* the row of the entry k of TABLE_KEYS with the values l and r
RowWith(k, l, r) ==
  [key |-> k.key, label |-> k.label, digits |-> k.digits, asPct |-> k.asPct,
   l |-> l, r |-> r, d |-> absDelta(l, r), dpct |-> pctDelta(l, r)]

\* the row of one entry k of TABLE_KEYS
Row(k, mq, lDate, rDate) ==
  RowWith(k, scaled(k, valAt(mq, k.key, lDate)), scaled(k, valAt(mq, k.key, rDate)))

\* rows that leave out the metrics without a value
Rows_Filtered(mq, lDate, rDate) ==
  LET HasValue(row) == ~IsNull(row.l) \/ ~IsNull(row.r)
  IN  SelectSeq([i \in 1..Len(TABLE_KEYS) |-> Row(TABLE_KEYS[i], mq, lDate, rDate)],
                HasValue)

\* rows = TABLE_KEYS.map(...)
Rows(mq, lDate, rDate) ==
  [i \in 1..Len(TABLE_KEYS) |-> Row(TABLE_KEYS[i], mq, lDate, rDate)]

\* the template of the sentence bullets() pushes for a metric: the name, the
\* two verbs, the unit of the toFixed(1) figure, the parts of the row that are
\* printed through fmt (d: the signed delta in brackets; l and r: `from l to
\* r`), the digits of l and r, and what follows them
Template(key) ==
  CASE key = "revenue" ->
         [name |-> "Revenue", up |-> "increased", down |-> "decreased",
          unit |-> "%", parts |-> {"d", "l", "r"}, digits |-> 0, after |-> ""]
    [] key = "gm" ->
         [name |-> "Gross margin", up |-> "expanded", down |-> "contracted",
          unit |-> " p.p.", parts |-> {"l", "r"}, digits |-> 1, after |-> "%"]
    [] key = "eps_diluted" ->
         [name |-> "EPS (diluted)", up |-> "rose", down |-> "fell",
          unit |-> "%", parts |-> {"l", "r"}, digits |-> 2, after |-> ""]
    [] key = "operating_income" ->
         [name |-> "Operating income", up |-> "up", down |-> "down",
          unit |-> "%", parts |-> {"d"}, digits |-> 0, after |-> ""]
    [] key = "net_income" ->
         [name |-> "Net income", up |-> "improved", down |-> "declined",
          unit |-> "%", parts |-> {"d"}, digits |-> 0, after |-> ""]
    [] key = "assets" ->
         [name |-> "Assets", up |-> "grew", down |-> "declined",
          unit |-> "%", parts |-> {}, digits |-> 0, after |-> ""]
    [] key = "liabilities" ->
         [name |-> "Liabilities", up |-> "increased", down |-> "decreased",
          unit |-> "%", parts |-> {}, digits |-> 0, after |-> ""]
    [] key = "equity" ->
         [name |-> "Equity", up |-> "expanded", down |-> "contracted",
          unit |-> "%", parts |-> {}, digits |-> 0, after |-> ""]

\* the delta a sentence is about: gm.d for the margin, x.dpct for the others
DeltaOf(row) == IF row.key = "gm" THEN row.d ELSE row.dpct

\* the verb of a sentence: `delta >= 0 ? up : down` (for the margin
\* `(gm.d ?? 0) >= 0`)
VerbOf(row, t) ==
  IF GeqZero(IF row.key = "gm" /\ IsNull(row.d) THEN Zero(FALSE) ELSE DeltaOf(row))
    THEN t.up ELSE t.down

\* the parts of the row a template prints through fmt: fmt(x.d, 0), and
\* fmt(x.l, digits) and fmt(x.r, digits)
PartsOf(row, t, loc) ==
  [p \in t.parts |-> fmt(row[p], IF p = "d" THEN 0 ELSE t.digits, loc)]

\* the "+" of a signed delta: x.d >= 0 ? "+" : ""
PrefixOf(row, t) == IF "d" \in t.parts /\ GeqZero(row.d) THEN "+" ELSE ""

\* the string of a sentence: `Name verb x.x% (+d), from l to r.` with the
\* parts the template prints
TextOf(t, verb, mag, prefix, parts) ==
  t.name \o " " \o verb \o " " \o mag \o t.unit
    \o (IF "d" \in t.parts THEN " (" \o prefix \o parts["d"] \o ")" ELSE "")
    \o (IF "l" \in t.parts
          THEN ", from " \o parts["l"] \o t.after \o " to " \o parts["r"] \o t.after
          ELSE "")
    \o "."

\* one sentence of the summary: `text` is the string that is pushed; the other
\* fields are the holes of its template (key: the metric whose row it reads,
\* verb: the direction verb, magnitude: the toFixed(1) figure, signed: whether
\* the template prints the delta, prefix: its "+" or "", delta: the fmt of it)
Sentence(key, t, verb, mag, prefix, parts) ==
  [key |-> key, verb |-> verb, magnitude |-> mag, signed |-> "d" \in t.parts,
   prefix |-> prefix, delta |-> IF "d" \in t.parts THEN parts["d"] ELSE "",
   text |-> TextOf(t, verb, mag, prefix, parts)]

\* the sentence of a row under the template t
Filled(row, t, loc) ==
  Sentence(row.key, t, VerbOf(row, t), toFixed(MathAbs(DeltaOf(row)), 1),
           PrefixOf(row, t), PartsOf(row, t, loc))

\* the order in which bullets() looks at the rows: rev, gm, eps, oi, ni, ast,
\* li, eq
BulletOrder ==
  << "revenue", "gm", "eps_diluted", "operating_income", "net_income",
     "assets", "liabilities", "equity" >>

\* every sentence, the margin's too, waits for the percentage delta
Contributes_PercentOnly(row) == ~IsNull(row.dpct)

\* the condition under which bullets() pushes the sentence of a row:
\* gm?.d != null for the margin, x?.dpct != null for the others
Contributes(row) ==
  IF row.key = "gm" THEN ~IsNull(row.d) ELSE ~IsNull(row.dpct)

\* the sentence bullets() pushes for a row
SentenceOf(row, loc) == Filled(row, Template(row.key), loc)

\* out after the first n statements `if (...) out.push(...)` of bullets()
RECURSIVE Pushed(_, _, _)
Pushed(rws, loc, n) ==
  IF n = 0 THEN << >>
  ELSE LET i == First({m \in 1..Len(rws) : rws[m].key = BulletOrder[n]})
       IN  Pushed(rws, loc, n - 1)
             \o (IF i # 0 /\ Contributes(rws[i]) THEN << SentenceOf(rws[i], loc) >> ELSE << >>)

\* bullets()
bullets(rdy, rws, loc) ==
  IF ~rdy THEN << >> ELSE Pushed(rws, loc, Len(BulletOrder))

\* headerLine(); the em dash and the arrow are written "--" and "->"
headerLine(rdy, lDate, rDate) ==
  IF ~rdy THEN ""
  ELSE symbol \o " 10-K comparison -- " \o lDate \o " -> " \o rDate

\* the values of one render of the page
leftDate == periodEndOf(filingsQ, leftAcc)
rightDate == periodEndOf(filingsQ, rightAcc)
ready == Ready(leftAcc, rightAcc, leftDate, rightDate)

\* the compare page renders: rows, bullets() and headerLine() are computed
\* from the parameters and the data of the two queries
Render ==
  /\ rows' = Rows(metricsQ', leftDate', rightDate')
  /\ summary' = bullets(ready', rows', locale')
  /\ header' = headerLine(ready', leftDate', rightDate')

\* another route is shown: nothing of the compare page is rendered
NoRender == rows' = << >> /\ summary' = << >> /\ header' = ""

\* the route that is shown renders again with new query data
Rerender == IF page = "compare" THEN Render ELSE UNCHANGED <<rows, summary, header>>

\* the application is opened at /compare with the parameters left and right
Init ==
  /\ leftAcc \in AccessionParams
  /\ rightAcc \in AccessionParams
  /\ locale \in Locales
  /\ filingsQ = NotLoaded
  /\ metricsQ = NotLoaded
  /\ rows = Rows(metricsQ, leftDate, rightDate)
  /\ summary = bullets(ready, rows, locale)
  /\ header = headerLine(ready, leftDate, rightDate)
  /\ page = "compare"
  /\ slotA = "" /\ slotB = "" /\ selected = << >>

\* the filing catalog query resolves, whatever route is shown, and the route
\* renders again
FilingsLoaded ==
  /\ ~filingsQ.loaded
  /\ filingsQ' = Loaded(Catalog)
  /\ UNCHANGED <<leftAcc, rightAcc, locale, metricsQ, page>>
  /\ UNCHANGED <<slotA, slotB, selected>>
  /\ Rerender

\* the metric series query resolves, whatever route is shown, and the route
\* renders again
MetricsLoaded ==
  /\ ~metricsQ.loaded
  /\ \E store \in Stores : metricsQ' = Loaded(store)
  /\ UNCHANGED <<leftAcc, rightAcc, locale, filingsQ, page>>
  /\ UNCHANGED <<slotA, slotB, selected>>
  /\ Rerender

(***************************************************************************)
(* The ticker page (apps/web/src/pages/Ticker.tsx): the 10-K list with the *)
(* View / A / B buttons, the compare tray and the focus metrics of the     *)
(* selected filing.                                                        *)
(***************************************************************************)
LIST_SIZE == 5

\* the values of the `a` and `b` URL parameters the page is opened with
SlotParams == {"", "0000000000-00-000000"}

\* tenKAll: (filingsQ.data ?? []).filter(f => f.form === "10-K")
tenKAll(fq) ==
  LET IsTenK(f) == f.form = "10-K"
  IN  SelectSeq(fq.data, IsTenK)

\* tenKAll.slice(0, LIST_SIZE): the filings that have buttons
listed(fq) ==
  LET all == tenKAll(fq)
  IN  SubSeq(all, 1, IF Len(all) < LIST_SIZE THEN Len(all) ELSE LIST_SIZE)

\* JavaScript truthiness of an optional number: not undefined, 0, -0 or NaN
TruthyNumber(x) == x.def /\ ~IsNaN(x) /\ ~IsZero(x)

\* selectedDate: selected?.periodEnd || the date of the revenue series' last point
selectedDateOf(sel, mq) ==
  LET i   == First({n \in 1..Len(mq.data) : mq.data[n].key = "revenue"})
      pts == IF ~mq.loaded \/ i = 0 THEN << >> ELSE mq.data[i].points
      own == IF sel = << >> THEN Absent ELSE sel[1].periodEnd
  IN  IF Truthy(own) THEN own
      ELSE IF pts = << >> THEN Absent ELSE pts[Len(pts)].date

\* a margin that only asks for a revenue value
marginOf_NoZeroGuard(numerator, revenue) ==
  IF ~IsNull(numerator) /\ ~IsNull(revenue) THEN Div(numerator, revenue) ELSE Undefined

\* (x != null && rev) ? x / rev : undefined
marginOf(numerator, revenue) ==
  IF ~IsNull(numerator) /\ TruthyNumber(revenue) THEN Div(numerator, revenue) ELSE Undefined

\* the values of one render of the ticker page
selectedDate == selectedDateOf(selected, metricsQ)
rev == valAt(metricsQ, "revenue", selectedDate)
gp == valAt(metricsQ, "gross_profit", selectedDate)
oi == valAt(metricsQ, "operating_income", selectedDate)
ni == valAt(metricsQ, "net_income", selectedDate)
gmRatio == marginOf(gp, rev)
opMargin == marginOf(oi, rev)
netMargin == marginOf(ni, rev)

\* the compare button is enabled: slotA && slotB
enableCompare == Truthy(slotA) /\ Truthy(slotB)

\* setSlot that starts from empty search parameters
setSlot_Fresh(slot, accession) ==
  LET sp == [a |-> "", b |-> ""]
      to == [sp EXCEPT ![slot] = IF Truthy(accession) THEN accession ELSE ""]
  IN  slotA' = to.a /\ slotB' = to.b

\* setSlot(slot, accession): a copy of the search parameters with `slot` set to
\* the accession, or deleted when there is none (get(slot) ?? "" is then "")
setSlot(slot, accession) ==
  LET sp == [a |-> slotA, b |-> slotB]
      to == [sp EXCEPT ![slot] = IF Truthy(accession) THEN accession ELSE ""]
  IN  slotA' = to.a /\ slotB' = to.b

\* what no click on the ticker page's list and tray changes
TickerFrame ==
  UNCHANGED <<leftAcc, rightAcc, locale, filingsQ, metricsQ, rows, summary, header, page>>

\* the application is opened at /ticker/AAPL with the parameters a and b
TickerInit ==
  /\ page = "ticker"
  /\ slotA \in SlotParams
  /\ slotB \in SlotParams
  /\ selected = << >>
  /\ locale \in Locales
  /\ filingsQ = NotLoaded
  /\ metricsQ = NotLoaded
  /\ leftAcc = "" /\ rightAcc = ""
  /\ rows = << >> /\ summary = << >> /\ header = ""

\* the View button of a listed filing: setSelected(f)
View(f) ==
  /\ page = "ticker"
  /\ selected' = << f >>
  /\ UNCHANGED <<slotA, slotB>>
  /\ TickerFrame

\* the A button of a listed filing: setSlot("a", aSel ? "" : f.accession)
ClickA(f) ==
  /\ page = "ticker"
  /\ setSlot("a", IF slotA = f.accession THEN "" ELSE f.accession)
  /\ UNCHANGED selected
  /\ TickerFrame

\* the B button of a listed filing: setSlot("b", bSel ? "" : f.accession)
ClickB(f) ==
  /\ page = "ticker"
  /\ setSlot("b", IF slotB = f.accession THEN "" ELSE f.accession)
  /\ UNCHANGED selected
  /\ TickerFrame

\* the Clear button of slot A, shown when the slot is not empty: setSlot("a")
ClearA ==
  /\ page = "ticker"
  /\ Truthy(slotA)
  /\ setSlot("a", Absent)
  /\ UNCHANGED selected
  /\ TickerFrame

\* the Clear button of slot B, shown when the slot is not empty: setSlot("b")
ClearB ==
  /\ page = "ticker"
  /\ Truthy(slotB)
  /\ setSlot("b", Absent)
  /\ UNCHANGED selected
  /\ TickerFrame

\* the Compare button, disabled unless both slots are set: the route becomes
\* /compare?symbol=AAPL&left=slotA&right=slotB (accessions are digits and
\* hyphens, which encodeURIComponent leaves as they are), which has no
\* parameters a and b; the ticker page unmounts and the compare page renders
\* with the data the two queries have
GoCompare ==
  /\ page = "ticker"
  /\ enableCompare
  /\ page' = "compare"
  /\ leftAcc' = slotA
  /\ rightAcc' = slotB
  /\ slotA' = "" /\ slotB' = "" /\ selected' = << >>
  /\ UNCHANGED <<locale, filingsQ, metricsQ>>
  /\ Render

(***************************************************************************)
(* The routes (App): the header's button and link, shown on every route,   *)
(* and the compare page's link back.                                       *)
(***************************************************************************)
\* a route without search parameters is shown: the parameters of both pages
\* read as "", nothing of the compare page is rendered
NoParams ==
  /\ leftAcc' = "" /\ rightAcc' = ""
  /\ slotA' = "" /\ slotB' = ""
  /\ NoRender
  /\ UNCHANGED <<locale, filingsQ, metricsQ>>

\* the link `Back to AAPL` of the compare page: /ticker/AAPL, where the ticker
\* page mounts with nothing selected
Back ==
  /\ page = "compare"
  /\ page' = "ticker"
  /\ selected' = << >>
  /\ NoParams

\* the button `Demo: AAPL`: nav("/ticker/AAPL"); a ticker page that is shown
\* stays mounted and keeps its selection
Demo ==
  /\ page' = "ticker"
  /\ selected' = IF page = "ticker" THEN selected ELSE << >>
  /\ NoParams

\* the link `Dashboard`: the route /, which shows neither page
Dashboard ==
  /\ page' = "dashboard"
  /\ selected' = << >>
  /\ NoParams

Next ==
  \/ FilingsLoaded
  \/ MetricsLoaded
  \/ \E i \in 1..Len(listed(filingsQ)) : View(listed(filingsQ)[i])
  \/ \E i \in 1..Len(listed(filingsQ)) : ClickA(listed(filingsQ)[i])
  \/ \E i \in 1..Len(listed(filingsQ)) : ClickB(listed(filingsQ)[i])
  \/ ClearA
  \/ ClearB
  \/ GoCompare
  \/ Back
  \/ Demo
  \/ Dashboard

\* the application opened at the compare page
Spec == Init /\ [][Next]_vars

\* the application opened at the ticker page
TickerSpec == TickerInit /\ [][Next]_vars

(***************************************************************************)
(* Properties of the comparison.                                           *)
(***************************************************************************)
\* the metric catalog in its fixed order
CatalogOrder ==
  << "revenue", "gm", "eps_diluted", "assets", "liabilities",
     "operating_income", "net_income", "equity" >>

\* the position of a key in a sequence of keys
IndexIn(order, key) == CHOOSE i \in 1..Len(order) : order[i] = key

\* the row of a metric in the last render
RowOf(key) == rows[CHOOSE i \in 1..Len(rows) : rows[i].key = key]

\* the raw values of a metric at the left and the right period
LeftRaw(key) == valAt(metricsQ, key, leftDate)
RightRaw(key) == valAt(metricsQ, key, rightDate)

\* C1: in every row the left / right value is defined exactly when the series
\* has a point at the left / right period, the absolute delta is defined
\* exactly when both values are, and the percentage delta is defined exactly
\* when both are and the left value is not 0; with a left value of 0 and a
\* right value the absolute delta is defined and the percentage delta is not;
\* a defined delta of these stores is a finite number, never Infinity or NaN.
C1_DeltasDefinedExactly ==
  \A i \in 1..Len(rows) :
    LET row == rows[i]
        both == ~IsNull(LeftRaw(row.key)) /\ ~IsNull(RightRaw(row.key))
    IN  /\ IsNull(row.l) <=> IsNull(LeftRaw(row.key))
        /\ IsNull(row.r) <=> IsNull(RightRaw(row.key))
        /\ ~IsNull(row.d) <=> both
        /\ ~IsNull(row.dpct) <=> (both /\ ~IsZero(row.l))
        /\ (IsZero(row.l) /\ ~IsNull(row.r)) => (~IsNull(row.d) /\ IsNull(row.dpct))
        /\ ~IsNull(row.d) => IsFinite(row.d)
        /\ ~IsNull(row.dpct) => IsFinite(row.dpct)

\* a row with left = 0 and a defined right value (absolute delta defined,
\* percentage delta not) next to a row with both deltas defined
C1_Witness ==
  /\ page = "compare" /\ ready
  /\ \E i, j \in 1..Len(rows) :
       /\ IsZero(rows[i].l) /\ ~IsNull(rows[i].r) /\ ~IsZero(rows[i].r)
       /\ ~IsNull(rows[i].d) /\ IsNull(rows[i].dpct)
       /\ ~IsNull(rows[j].d) /\ ~IsNull(rows[j].dpct)

\* C2: the gross margin row's absolute delta is the difference in percentage
\* points, 100 * rightRaw - 100 * leftRaw; from 0.400 to 0.425 it is 2.5, not
\* 0.025 and not 6.25.
C2_MarginDeltaInPoints ==
  page = "compare" =>
    LET lRaw == LeftRaw("gm")
        rRaw == RightRaw("gm")
        row  == RowOf("gm")
    IN  (~IsNull(lRaw) /\ ~IsNull(rRaw)) =>
          /\ ~IsNull(row.d)
          /\ row.d = Sub(Mul(Hundred, rRaw), Mul(Hundred, lRaw))
          /\ (lRaw = Num(400, 1000) /\ rRaw = Num(425, 1000)) =>
               /\ row.l = Num(40, 1) /\ row.r = Num(425, 10)
               /\ row.d = Num(25, 10)
               /\ row.d # Num(25, 1000) /\ row.d # Num(625, 100)

\* the margin goes from 40.0% to 42.5% and the row says 2.5 points
C2_Witness ==
  /\ page = "compare" /\ ready
  /\ LeftRaw("gm") = Num(400, 1000) /\ RightRaw("gm") = Num(425, 1000)
  /\ RowOf("gm").d = Num(25, 10)

\* C3 as stated: the gross margin row's percentage delta is the point
\* difference right - left of the scaled values.
C3_PercentDeltaIsPointDifference ==
  page = "compare" =>
    LET row == RowOf("gm")
    IN  ~IsNull(row.dpct) => row.dpct = Sub(row.r, row.l)

\* C3 amended: the gross margin row's absolute delta is the point difference
\* right - left of the scaled values and is the figure of the margin's
\* sentence; the row's percentage delta is the relative change
\* (right - left) / left * 100 of the scaled values (6.25 for 40.0% -> 42.5%).
C3_MarginPointsAndRelativePercent ==
  page = "compare" =>
    LET row == RowOf("gm")
    IN  /\ ~IsNull(row.d) => row.d = Sub(row.r, row.l)
        /\ ~IsNull(row.dpct) =>
             row.dpct = Mul(Div(Sub(row.r, row.l), row.l), Hundred)
        /\ (row.l = Num(40, 1) /\ row.r = Num(425, 10)) =>
             (row.dpct = Num(625, 100) /\ row.dpct # Num(25, 10))
        /\ \A n \in 1..Len(summary) :
             summary[n].key = "gm" => summary[n].magnitude = toFixed(MathAbs(row.d), 1)

\* the margin goes from 40.0% to 42.5%: 2.5 points in the sentence, 6.25% in
\* the row's percentage delta
C3_Witness ==
  /\ page = "compare" /\ ready
  /\ RowOf("gm").l = Num(40, 1) /\ RowOf("gm").r = Num(425, 10)
  /\ RowOf("gm").d = Num(25, 10) /\ RowOf("gm").dpct = Num(625, 100)
  /\ \E n \in 1..Len(summary) : summary[n].key = "gm" /\ summary[n].magnitude = "2.5"

\* C4: the table of the compare page has 8 rows, one per catalog metric, in
\* catalog order, whatever the store, the periods and the state of the queries.
C4_EightRowsInCatalogOrder ==
  page = "compare" =>
    /\ Len(rows) = 8
    /\ \A i \in 1..8 : rows[i].key = CatalogOrder[i]

\* an empty store and unresolved periods: 8 rows, all without values
C4_Witness ==
  /\ page = "compare"
  /\ metricsQ.loaded /\ metricsQ.data = << >>
  /\ ~ready
  /\ Len(rows) = 8
  /\ \A i \in 1..Len(rows) : IsNull(rows[i].l) /\ IsNull(rows[i].r)

\* the row a sentence was made from and the delta that decides about it: the
\* absolute delta for the margin, the percentage delta for every other metric
RelevantDelta(key) == IF key = "gm" THEN RowOf(key).d ELSE RowOf(key).dpct

\* how many sentences of the summary are about a metric
SentencesOf(key) == Cardinality({n \in 1..Len(summary) : summary[n].key = key})

\* C5: the sentences appear in catalog order (revenue, gross margin,
\* diluted EPS, assets, liabilities, operating income, net income, equity).
C5_SentencesInCatalogOrder ==
  \A m, n \in 1..Len(summary) :
    m < n => IndexIn(CatalogOrder, summary[m].key) < IndexIn(CatalogOrder, summary[n].key)

\* all eight sentences in the order bullets() pushes them: operating income and
\* net income before assets and liabilities, a delta of 166.2% after one of
\* 2.8% and before one of 28.7%
C5_Witness ==
  /\ page = "compare" /\ ready
  /\ Len(summary) = 8
  /\ [n \in 1..8 |-> summary[n].key] = BulletOrder
  /\ summary[1].magnitude = "2.8"
  /\ summary[3].key = "eps_diluted" /\ summary[3].magnitude = "166.2"
  /\ summary[4].key = "operating_income" /\ summary[4].magnitude = "2.8"
  /\ summary[8].key = "equity" /\ summary[8].magnitude = "28.7"

\* C6: when the comparison is ready a metric has exactly one sentence if its
\* relevant delta is defined and none otherwise, whatever the other metrics
\* have: it has one exactly when the series has a point at both periods and,
\* for a metric other than the margin, the left value is not 0.
C6_OneSentencePerDefinedDelta ==
  (page = "compare" /\ ready) =>
    \A k \in MetricKeys :
      LET both == ~IsNull(LeftRaw(k)) /\ ~IsNull(RightRaw(k))
      IN  /\ SentencesOf(k) = IF ~IsNull(RelevantDelta(k)) THEN 1 ELSE 0
          /\ SentencesOf(k) = IF both /\ (k = "gm" \/ ~IsZero(LeftRaw(k))) THEN 1 ELSE 0

\* one metric has no point at the right period and no sentence, the seven
\* others have theirs
C6_Witness ==
  /\ page = "compare" /\ ready
  /\ \E k \in MetricKeys :
       /\ ~IsNull(LeftRaw(k)) /\ IsNull(RightRaw(k))
       /\ IsNull(RowOf(k).r) /\ SentencesOf(k) = 0
       /\ \A o \in MetricKeys \ {k} : SentencesOf(o) = 1

\* C7: with revenue left = 0 and right = 50 the row has absolute delta 50 and
\* no percentage delta, and the summary prints no percentage figure for
\* revenue (it has no revenue sentence); no sentence of any summary prints
\* Infinity or NaN.
C7_ZeroBaseRevenue ==
  /\ (page = "compare" /\ ready /\ IsZero(LeftRaw("revenue"))
        /\ RightRaw("revenue") = Num(50, 1)) =>
       /\ RowOf("revenue").d = Num(50, 1)
       /\ IsNull(RowOf("revenue").dpct)
       /\ SentencesOf("revenue") = 0
  /\ \A n \in 1..Len(summary) :
       summary[n].magnitude \notin {"Infinity", "-Infinity", "NaN"}

\* revenue goes from 0 to 50 and the summary has the other seven sentences
C7_Witness ==
  /\ page = "compare" /\ ready
  /\ IsZero(RowOf("revenue").l) /\ RowOf("revenue").r = Num(50, 1)
  /\ RowOf("revenue").d = Num(50, 1)
  /\ Len(summary) = 7
  /\ summary[1].key = "gm"

\* the verb pair of each metric: <<increase-flavored, decrease-flavored>>
VerbPair(key) ==
  CASE key = "revenue"          -> << "increased", "decreased" >>
    [] key = "gm"               -> << "expanded", "contracted" >>
    [] key = "eps_diluted"      -> << "rose", "fell" >>
    [] key = "assets"           -> << "grew", "declined" >>
    [] key = "liabilities"      -> << "increased", "decreased" >>
    [] key = "operating_income" -> << "up", "down" >>
    [] key = "net_income"       -> << "improved", "declined" >>
    [] key = "equity"           -> << "expanded", "contracted" >>

\* C8: the verb of every sentence is the first of its metric's pair when the
\* relevant delta is >= 0 (0 included) and the second when it is negative.
C8_VerbFollowsSign ==
  \A n \in 1..Len(summary) :
    LET k     == summary[n].key
        delta == RelevantDelta(k)
    IN  /\ ~IsNull(delta)
        /\ summary[n].verb = IF IsNegative(delta) THEN VerbPair(k)[2] ELSE VerbPair(k)[1]

\* a delta of exactly 0 with the first verb next to a negative delta with the
\* second one
C8_Witness ==
  /\ page = "compare" /\ ready
  /\ \E m, n \in 1..Len(summary) :
       /\ IsZero(RelevantDelta(summary[m].key))
       /\ summary[m].verb = VerbPair(summary[m].key)[1]
       /\ IsNegative(RelevantDelta(summary[n].key))
       /\ summary[n].verb = VerbPair(summary[n].key)[2]

\* C9: with the two periods swapped the absolute delta of every metric that
\* has both values changes its sign.
C9_AbsoluteDeltaAntisymmetric ==
  \A i \in 1..Len(rows) :
    LET row     == rows[i]
        swapped == Row(TABLE_KEYS[i], metricsQ, rightDate, leftDate)
    IN  (~IsNull(row.l) /\ ~IsNull(row.r)) =>
          /\ swapped.l = row.r /\ swapped.r = row.l
          /\ ~IsNull(swapped.d)
          /\ NumEq(swapped.d, Neg(row.d))

\* a non-zero delta whose percentage is not antisymmetric under the swap
C9_Witness ==
  /\ page = "compare" /\ ready
  /\ \E i \in 1..Len(rows) :
       LET row     == rows[i]
           swapped == Row(TABLE_KEYS[i], metricsQ, rightDate, leftDate)
       IN  /\ ~IsNull(row.d) /\ ~IsZero(row.d)
           /\ swapped.d = Neg(row.d)
           /\ ~IsNull(row.dpct) /\ ~IsNull(swapped.dpct)
           /\ ~NumEq(swapped.dpct, Neg(row.dpct))

\* both parameters name a filing of the loaded catalog that has a period end
BothResolved ==
  /\ leftAcc # "" /\ rightAcc # ""
  /\ filingsQ.loaded
  /\ \A acc \in {leftAcc, rightAcc} :
       /\ \E i \in 1..Len(filingsQ.data) : filingsQ.data[i].accession = acc
       /\ LET i == CHOOSE i \in 1..Len(filingsQ.data) :
                     /\ filingsQ.data[i].accession = acc
                     /\ \A j \in 1..(i - 1) : filingsQ.data[j].accession # acc
          IN  filingsQ.data[i].periodEnd # ""

\* C10: on the compare page the comparison is ready (a header is shown)
\* exactly when both filing ids are non-empty and resolve in the loaded
\* catalog to a non-empty period end; otherwise the summary is the empty list
\* and the header is empty.
C10_ReadyExactlyWhenResolved ==
  page = "compare" =>
    /\ BothResolved <=> header # ""
    /\ BothResolved => header = "AAPL 10-K comparison -- " \o leftDate \o " -> " \o rightDate
    /\ ~BothResolved => (summary = << >> /\ header = "")

\* a filing without a period end on one side, data loaded: not ready
C10_Witness ==
  /\ page = "compare"
  /\ filingsQ.loaded /\ metricsQ.loaded /\ Len(metricsQ.data) = 9
  /\ leftAcc = "0000320193-22-000108" /\ rightAcc = "0000320193-24-000123"
  /\ ~BothResolved
  /\ summary = << >> /\ header = ""

(***************************************************************************)
(* Properties of the ticker page and of the two pages together.            *)
(***************************************************************************)
\* the three margins of the focus metrics with their numerators
MarginPairs == { <<gmRatio, gp>>, <<opMargin, oi>>, <<netMargin, ni>> }

\* C11: each margin of the focus metrics is Undefined when the revenue is
\* missing or 0 or its numerator is missing, and is otherwise the unscaled
\* fraction numerator / revenue (0 for a numerator of 0, not the percentage),
\* a finite number.
C11_MarginsUndefinedOrFraction ==
  page = "ticker" =>
    \A pair \in MarginPairs :
      LET ratio == pair[1]
          numer == pair[2]
      IN  /\ ~IsNull(ratio) <=> (~IsNull(numer) /\ ~IsNull(rev) /\ ~IsZero(rev))
          /\ ~IsNull(ratio) =>
               /\ IsFinite(ratio)
               /\ ratio = Div(numer, rev)
               /\ IsZero(numer) <=> IsZero(ratio)
               /\ ~IsZero(numer) => ratio # Mul(Div(numer, rev), Hundred)

\* a selected filing with revenue 0: no margin, although the numerators are
\* there and are not 0
C11_Witness ==
  /\ page = "ticker"
  /\ selected # << >>
  /\ IsZero(rev)
  /\ ~IsNull(gp) /\ ~IsNull(oi) /\ ~IsNull(ni)
  /\ ~IsZero(gp) /\ ~IsZero(oi) /\ ~IsZero(ni)
  /\ IsNull(gmRatio) /\ IsNull(opMargin) /\ IsNull(netMargin)

\* the gross margin of the Ratio Deriver at a period: gross profit / revenue
DerivedGrossMargin(d) ==
  marginOf(valAt(metricsQ, "gross_profit", d), valAt(metricsQ, "revenue", d))

\* the store has a series of the key
HasSeries(key) ==
  metricsQ.loaded /\ \E n \in 1..Len(metricsQ.data) : metricsQ.data[n].key = key

\* C12: the left and right value of the comparison's gross margin row are the
\* Ratio Deriver's gross profit / revenue at the left and right period (x100),
\* Undefined where that ratio is; checked on the ready comparisons over a
\* store that holds a gross_profit series.
C12_MarginFromRatioDeriver ==
  (page = "compare" /\ ready /\ HasSeries("gross_profit")) =>
    /\ RowOf("gm").l = scaled(TABLE_KEYS[2], DerivedGrossMargin(leftDate))
    /\ RowOf("gm").r = scaled(TABLE_KEYS[2], DerivedGrossMargin(rightDate))

\* C13: the rows and the sentences of a render are those of the series store
\* and the two periods alone: whatever the default locale of the runtime, the
\* rows are Rows(store, left, right) and the sentences are the same strings.
C13_SameOutputInEveryLocale ==
  page = "compare" =>
    /\ rows = Rows(metricsQ, leftDate, rightDate)
    /\ \A loc \in Locales : bullets(ready, rows, loc) = summary

\* C14: in every sentence that prints a verb and the signed delta (revenue,
\* operating income, net income) the two agree: the decrease-flavored verb
\* stands exactly with a negative delta, the "+" exactly with the
\* increase-flavored verb.
C14_VerbAgreesWithSignedDelta ==
  \A n \in 1..Len(summary) :
    summary[n].signed =>
      LET k == summary[n].key
      IN  /\ summary[n].verb = VerbPair(k)[2] <=> IsNegative(RowOf(k).d)
          /\ summary[n].prefix = "+" <=> summary[n].verb = VerbPair(k)[1]

\* what a step of the ticker page does to the two slots and to the route
SlotStep ==
  /\ \A i \in 1..Len(listed(filingsQ)) :
       LET f == listed(filingsQ)[i]
       IN  /\ ClickA(f) =>
                /\ slotB' = slotB
                /\ slotA' = f.accession <=> slotA # f.accession
                /\ slotA = f.accession => slotA' = ""
           /\ ClickB(f) =>
                /\ slotA' = slotA
                /\ slotB' = f.accession <=> slotB # f.accession
                /\ slotB = f.accession => slotB' = ""
  /\ ClearA => (slotA' = "" /\ slotB' = slotB)
  /\ ClearB => (slotB' = "" /\ slotA' = slotA)
  /\ page = "ticker" => (enableCompare <=> (slotA # "" /\ slotB # ""))
  /\ GoCompare =>
       /\ slotA # "" /\ slotB # ""
       /\ page' = "compare" /\ leftAcc' = slotA /\ rightAcc' = slotB

\* C15: on the ticker page a click on A (B) of a filing toggles that slot only
\* (it holds the filing afterwards iff it did not before, and is empty after a
\* toggle off or a Clear), the other slot stays as it is, and the Compare
\* button is enabled exactly when both slots are non-empty and then opens the
\* comparison with left = slot A and right = slot B.
C15_SlotsToggleAndCompare == [][SlotStep]_vars

\* slot A and slot B were set by clicks on two listed filings and the
\* comparison was opened with them
C15_Witness ==
  /\ page = "compare"
  /\ leftAcc = "0000320193-22-000108" /\ rightAcc = "0000320193-23-000106"
  /\ filingsQ.loaded /\ metricsQ.loaded
  /\ header # ""

====
